---- MODULE Spec2Model ----
(***************************************************************************)
(* Model of connector_smtp/commands/send_email.py: the path guard, the     *)
(* attachment loader, the recipient resolver and SendHTMLEmail.execute.    *)
(*                                                                         *)
(* Python strings are sequences of one-character strings, so that split,   *)
(* strip, startswith, realpath and base64 decoding are computed character  *)
(* by character the way the library computes them.                         *)
(***************************************************************************)
EXTENDS Integers, Sequences, FiniteSets, TLC

\* ------------------------------------------------------------------ bounds
MaxPathLen == 5
MaxToLen == 3
MaxB64Len == 8
MaxLimit == 5
MaxFileSize == 4
MaxAttachments == 2
MaxWrites == 1

\* Python's None, where a string may stand
None == <<"None">>

\* bool(v) of an optional string
Truthy(v) == v # None /\ v # <<>>

\* ------------------------------------------------------- string primitives
SeqsUpTo(S, n) == UNION {[1..k -> S] : k \in 0..n}

Min(a, b) == IF a <= b THEN a ELSE b

\* s[:n]
Take(s, n) == SubSeq(s, 1, Min(n, Len(s)))

\* s[n:] for n >= 0
Drop(s, n) == SubSeq(s, n + 1, Len(s))

\* str.startswith
StartsWith(s, p) == Len(p) <= Len(s) /\ SubSeq(s, 1, Len(p)) = p

\* str.endswith
EndsWith(s, p) == Len(p) <= Len(s) /\ SubSeq(s, Len(s) - Len(p) + 1, Len(s)) = p

\* c in s
Contains(s, c) == \E i \in 1..Len(s) : s[i] = c

RECURSIVE SplitOn(_, _)
\* str.split(sep) for a one-character separator: always at least one piece
SplitOn(s, sep) ==
    IF \A i \in 1..Len(s) : s[i] # sep THEN <<s>>
    ELSE LET i == CHOOSE j \in 1..Len(s) : s[j] = sep /\ \A k \in 1..(j - 1) : s[k] # sep
         IN <<SubSeq(s, 1, i - 1)>> \o SplitOn(Drop(s, i), sep)

RECURSIVE JoinWith(_, _)
\* sep.join(parts)
JoinWith(parts, sep) ==
    IF parts = <<>> THEN <<>>
    ELSE IF Len(parts) = 1 THEN parts[1]
    ELSE parts[1] \o sep \o JoinWith(Tail(parts), sep)

RECURSIVE SelectNonEmpty(_)
SelectNonEmpty(parts) ==
    IF parts = <<>> THEN <<>>
    ELSE IF Head(parts) = <<>> THEN SelectNonEmpty(Tail(parts))
    ELSE <<Head(parts)>> \o SelectNonEmpty(Tail(parts))

\* ------------------------------------------------------------------ state
VARIABLES
    \* the path guard called on its own
    path_value, path_result, path_pc,
    \* the filesystem: working directory, symbolic links (pairs <<link, target>>
    \* of component lists) and the size of the file /a/f (NoFile when absent)
    cwd, links, file, writes,
    \* the command's fields
    attachments, email_to, email_cc, email_bcc,
    smtp_starttls, smtp_user, smtp_password,
    \* the environment setting M8FLOW_CONNECTOR_SMTP_ATTACHMENTS_LIMIT_IN_MB
    env_limit,
    \* locals of execute and of _read_attachment_bytes
    pc, limit_bytes, logs, error, i, message_attachments, safe_path, size,
    envelope_recipients, exc,
    \* the SMTP session: connection state and what send_message was given
    conn, sent_to,
    \* history: the network stages attempted and the failures raised, in order
    steps, failures

pathVars == <<path_value, path_result, path_pc>>
fsVars == <<cwd, links, file, writes>>
fieldVars == <<attachments, email_to, email_cc, email_bcc,
               smtp_starttls, smtp_user, smtp_password, env_limit>>
localVars == <<pc, limit_bytes, logs, error, i, message_attachments, safe_path,
               size, envelope_recipients, exc>>
netVars == <<conn, sent_to, steps, failures>>
vars == <<pathVars, fsVars, fieldVars, localVars, netVars>>

\* ------------------------------------------------------------- path guard
\* module constant ALLOWED_ATTACHMENTS_DIR (default "/attachments", here "/a")
ALLOWED_ATTACHMENTS_DIR == <<"/", "a">>

\* posixpath.isabs
isabs(p) == StartsWith(p, <<"/">>)

\* components of a path string, empty names dropped
Components(p) == SelectNonEmpty(SplitOn(p, "/"))

\* "/" + "/".join(comps)
Render(comps) == <<"/">> \o JoinWith(comps, <<"/">>)

LinkTarget(lk, at) == (CHOOSE l \in lk : l[1] = at)[2]

RECURSIVE JoinRealpath(_, _, _)
\* posixpath._joinrealpath: walk the remaining names from the canonical
\* directory `at`; "." is skipped, ".." goes to the parent (the root is its
\* own parent), a symbolic link is replaced by its (canonical) target.
JoinRealpath(at, rest, lk) ==
    IF rest = <<>> THEN at
    ELSE LET name == Head(rest)
         IN IF name = <<".">> THEN JoinRealpath(at, Tail(rest), lk)
            ELSE IF name = <<".", ".">>
                 THEN JoinRealpath(IF at = <<>> THEN <<>> ELSE SubSeq(at, 1, Len(at) - 1),
                                   Tail(rest), lk)
            ELSE LET newpath == Append(at, name)
                 IN IF \E l \in lk : l[1] = newpath
                    THEN JoinRealpath(LinkTarget(lk, newpath), Tail(rest), lk)
                    ELSE JoinRealpath(newpath, Tail(rest), lk)

\* os.path.realpath: an absolute path is walked from the root, a relative
\* one from the working directory
realpath(p, wd, lk) ==
    Render(JoinRealpath(IF isabs(p) THEN <<>> ELSE wd, Components(p), lk))

RECURSIVE CommonPrefix(_, _)
CommonPrefix(a, b) ==
    IF a = <<>> \/ b = <<>> \/ Head(a) # Head(b) THEN <<>>
    ELSE <<Head(a)>> \o CommonPrefix(Tail(a), Tail(b))

\* containment by raw string prefix instead of whole components
commonpath_rawprefix(a, b) == IF StartsWith(b, a) THEN a ELSE <<"/">>

\* os.path.commonpath of two absolute paths: the longest common run of
\* whole components
commonpath(a, b) == Render(CommonPrefix(Components(a), Components(b)))

\* a call that returns a value, and one that raises
Ok(v) == [ok |-> TRUE, value |-> v]
Raise(cls, msg) == [ok |-> FALSE, cls |-> cls, msg |-> msg]

\* _resolve_and_validate_attachment_path
resolve_and_validate_attachment_path(p, wd, lk) ==
    IF p = <<>> THEN Raise("ValueError", "path must be a non-empty string")
    ELSE LET allowed_root == realpath(ALLOWED_ATTACHMENTS_DIR, wd, lk)
         IN IF Contains(Take(p, 3), ":") \/ StartsWith(p, <<"\\", "\\">>)
            THEN Raise("ValueError", "Windows/UNC paths are not allowed")
            ELSE IF ~isabs(p)
            THEN Raise("ValueError", "path must be an absolute path")
            ELSE LET candidate == realpath(p, wd, lk)
                 IN IF commonpath(allowed_root, candidate) # allowed_root
                    THEN Raise("ValueError", "path must be under the allowed root")
                    ELSE Ok(candidate)

\* ------------------------------------------------------------------ limits
HARD_ATTACHMENTS_LIMIT_MB == 100
DEFAULT_ATTACHMENTS_LIMIT_MB == 100
BytesPerMB == 1024 * 1024

\* a raw environment value: unset (or blank, or not a number), or the digits of n
EnvUnset == [kind |-> "unset", n |-> 0]
EnvInt(n) == [kind |-> "int", n |-> n]

\* _env_int
env_int(raw, default) == IF raw.kind = "int" THEN raw.n ELSE default

\* _get_attachments_limit_bytes
get_attachments_limit_bytes(raw) ==
    LET requested_mb == env_int(raw, DEFAULT_ATTACHMENTS_LIMIT_MB)
        positive_mb == IF requested_mb <= 0 THEN DEFAULT_ATTACHMENTS_LIMIT_MB
                       ELSE requested_mb
    IN Min(positive_mb, HARD_ATTACHMENTS_LIMIT_MB) * BytesPerMB

\* -------------------------------------------------------------- recipients
RECURSIVE Strip(_)
\* str.strip(): leading and trailing whitespace removed
Strip(s) ==
    IF s = <<>> THEN s
    ELSE IF Head(s) = " " THEN Strip(Tail(s))
    ELSE IF s[Len(s)] = " " THEN Strip(SubSeq(s, 1, Len(s) - 1))
    ELSE s

\* str.replace(old, new) for one-character strings
Replace(s, old, new) == [k \in 1..Len(s) |-> IF s[k] = old THEN new ELSE s[k]]

RECURSIVE StripAll(_)
StripAll(parts) ==
    IF parts = <<>> THEN <<>> ELSE <<Strip(Head(parts))>> \o StripAll(Tail(parts))

\* _split_recipients
split_recipients(value) ==
    IF ~Truthy(value) THEN <<>>
    ELSE LET raw == Replace(value, ";", ",")
         IN SelectNonEmpty(StripAll(SplitOn(raw, ",")))

Elems(items) == {items[k] : k \in 1..Len(items)}

RECURSIVE DedupeFrom(_, _, _)
DedupeFrom(items, seen, out) ==
    IF items = <<>> THEN out
    ELSE IF Head(items) \notin seen
         THEN DedupeFrom(Tail(items), seen \cup {Head(items)}, Append(out, Head(items)))
         ELSE DedupeFrom(Tail(items), seen, out)

\* a dedupe that keeps the last occurrence instead of the first
RECURSIVE dedupe_keep_last(_)
dedupe_keep_last(items) ==
    IF items = <<>> THEN <<>>
    ELSE IF Head(items) \in Elems(Tail(items)) THEN dedupe_keep_last(Tail(items))
    ELSE <<Head(items)>> \o dedupe_keep_last(Tail(items))

\* _dedupe_keep_order
dedupe_keep_order(items) == DedupeFrom(items, {}, <<>>)

\* ------------------------------------------------------------------ base64
B64Digits == {"A", "/"}

\* the six-bit value of a digit of the base64 alphabet
Sextet(c) == IF c = "/" THEN 63 ELSE 0

\* "".join(s.split()): all whitespace removed
RemoveWhitespace(s) == SelectSeq(s, LAMBDA c : c # " ")

\* _estimated_base64_decoded_size
estimated_base64_decoded_size(b64_text) ==
    LET s == RemoveWhitespace(b64_text)
        padding == IF EndsWith(s, <<"=", "=">>) THEN 2
                   ELSE IF EndsWith(s, <<"=">>) THEN 1 ELSE 0
    IN IF s = <<>> THEN 0 ELSE (Len(s) * 3) \div 4 - padding

RECURSIVE TrailingPads(_)
TrailingPads(s) ==
    IF s # <<>> /\ s[Len(s)] = "=" THEN 1 + TrailingPads(SubSeq(s, 1, Len(s) - 1)) ELSE 0

\* what base64.b64decode(validate=True) accepts: whole quads of digits, the
\* last one closed by at most two "="
B64WellFormed(s) ==
    /\ Len(s) % 4 = 0
    /\ TrailingPads(s) <= 2
    /\ \A k \in 1..(Len(s) - TrailingPads(s)) : s[k] \in B64Digits

\* the bytes of one quad: 3, or 2 with one "=", or 1 with two
DecodeQuad(q) ==
    LET b1 == Sextet(q[1]) * 4 + Sextet(q[2]) \div 16
        b2 == (Sextet(q[2]) % 16) * 16 + Sextet(q[3]) \div 4
        b3 == (Sextet(q[3]) % 4) * 64 + Sextet(q[4])
    IN IF q[3] = "=" THEN <<b1>> ELSE IF q[4] = "=" THEN <<b1, b2>> ELSE <<b1, b2, b3>>

RECURSIVE DecodeQuads(_)
DecodeQuads(s) ==
    IF s = <<>> THEN <<>> ELSE DecodeQuad(SubSeq(s, 1, 4)) \o DecodeQuads(Drop(s, 4))

\* base64.b64decode(s, validate=True)
b64decode(s) ==
    IF B64WellFormed(s) THEN Ok(DecodeQuads(s))
    ELSE Raise("ValueError", "invalid base64 content")

\* a limit check that also rejects a size equal to the limit
enforce_limit_strict(size_bytes, limit_bytes_) == size_bytes >= limit_bytes_

\* _enforce_attachment_limit: TRUE when it raises
enforce_attachment_limit(size_bytes, limit_bytes_) == size_bytes > limit_bytes_

TooLarge == Raise("ValueError", "attachment is too large")

\* ------------------------------------------------------- attachment loader
NoFile == -1

\* the one regular file of the model, /a/f
FilePath == <<"/", "a", "/", "f">>

\* os.path.isfile
isfile(p, f) == p = FilePath /\ f # NoFile

Log(tag, msg, n) == [tag |-> tag, msg |-> msg, n |-> n]
Err(cls, msg) == [error_code |-> cls, message |-> msg]

\* error = None
NoError == Err("None", "None")

\* a failure raised at a stage of the pipeline
Failure(stage, err) == [stage |-> stage, err |-> err]

\* no exception pending
NoExc == Raise("", "")

\* str(att.get("filename") or "").strip()
FilenameOf(att) == Strip(IF Truthy(att.filename) THEN att.filename ELSE <<>>)

\* an except clause that records the error and goes on with the next
\* attachment instead of returning
AttachmentError_continue(e) ==
    /\ logs' = Append(logs, Log("attachment error", e.msg, 0))
    /\ error' = Err(e.cls, e.msg)
    /\ failures' = Append(failures, Failure("attachment", Err(e.cls, e.msg)))
    /\ i' = i + 1
    /\ pc' = "att_loop"
    /\ UNCHANGED <<limit_bytes, message_attachments, safe_path, size,
                   envelope_recipients, exc, conn, sent_to, steps>>

\* execute, the except clause of the attachment stage: log, set the error,
\* return
AttachmentError(e) ==
    /\ logs' = Append(logs, Log("attachment error", e.msg, 0))
    /\ error' = Err(e.cls, e.msg)
    /\ failures' = Append(failures, Failure("attachment", Err(e.cls, e.msg)))
    /\ pc' = "done"
    /\ UNCHANGED <<limit_bytes, i, message_attachments, safe_path, size,
                   envelope_recipients, exc, conn, sent_to, steps>>

\* execute, the loop body after _read_attachment_bytes returned a payload of
\* n bytes: add it to the message and log it
Attached(filename, n) ==
    /\ message_attachments' =
           Append(message_attachments, [filename |-> filename, size |-> n])
    /\ logs' = Append(logs, Log("attached", "", n))
    /\ i' = i + 1
    /\ pc' = "att_loop"
    /\ UNCHANGED <<limit_bytes, error, safe_path, size, envelope_recipients,
                   exc, conn, sent_to, steps, failures>>

\* execute up to the attachment loop
Begin ==
    /\ pc = "start"
    /\ limit_bytes' = get_attachments_limit_bytes(env_limit)
    /\ logs' = <<Log("attachments allowed dir", "", 0),
                 Log("attachments size limit", "", limit_bytes')>>
    /\ i' = 1
    /\ pc' = "att_loop"
    /\ UNCHANGED <<error, message_attachments, safe_path, size,
                   envelope_recipients, exc>>
    /\ UNCHANGED <<pathVars, fsVars, fieldVars, netVars>>

\* _read_attachment_bytes up to the size stat of a path source, and the whole
\* of it for the other sources
ReadAttachmentEnter ==
    /\ pc = "att_loop"
    /\ i <= Len(attachments)
    /\ LET att == attachments[i]
           filename == FilenameOf(att)
       IN IF filename = <<>>
          THEN AttachmentError(Raise("ValueError", "missing required field filename"))
          ELSE IF Truthy(att.path)
          THEN LET r == resolve_and_validate_attachment_path(att.path, cwd, links)
               IN IF ~r.ok THEN AttachmentError(r)
                  ELSE IF ~isfile(r.value, file)
                  THEN AttachmentError(Raise("FileNotFoundError", "no such file"))
                  ELSE /\ safe_path' = r.value
                       /\ pc' = "att_stat"
                       /\ UNCHANGED <<limit_bytes, logs, error, i, message_attachments,
                                      size, envelope_recipients, exc, netVars>>
          ELSE IF Truthy(att.content_base64)
          THEN LET est == estimated_base64_decoded_size(att.content_base64)
                   d == b64decode(att.content_base64)
               IN IF enforce_attachment_limit(est, limit_bytes)
                  THEN AttachmentError(TooLarge)
                  ELSE IF ~d.ok THEN AttachmentError(d)
                  ELSE IF enforce_attachment_limit(Len(d.value), limit_bytes)
                  THEN AttachmentError(TooLarge)
                  ELSE Attached(filename, Len(d.value))
          ELSE AttachmentError(Raise("ValueError", "must provide path or content_base64"))
    /\ UNCHANGED <<pathVars, fsVars, fieldVars>>

\* _read_attachment_bytes: os.path.getsize and the check before reading
ReadAttachmentStat ==
    /\ pc = "att_stat"
    /\ IF file = NoFile
       THEN AttachmentError(Raise("FileNotFoundError", "no such file"))
       ELSE IF enforce_attachment_limit(file, limit_bytes)
       THEN AttachmentError(TooLarge)
       ELSE /\ size' = file
            /\ pc' = "att_read"
            /\ UNCHANGED <<limit_bytes, logs, error, i, message_attachments, safe_path,
                           envelope_recipients, exc, netVars>>
    /\ UNCHANGED <<pathVars, fsVars, fieldVars>>

\* a read that trusts the size seen by the stat
ReadAttachmentRead_nocheck ==
    /\ pc = "att_read"
    /\ IF file = NoFile
       THEN AttachmentError(Raise("FileNotFoundError", "no such file"))
       ELSE Attached(FilenameOf(attachments[i]), file)
    /\ UNCHANGED <<pathVars, fsVars, fieldVars>>

\* _read_attachment_bytes: open, read, and the check after reading
ReadAttachmentRead ==
    /\ pc = "att_read"
    /\ IF file = NoFile
       THEN AttachmentError(Raise("FileNotFoundError", "no such file"))
       ELSE IF enforce_attachment_limit(file, limit_bytes)
       THEN AttachmentError(TooLarge)
       ELSE Attached(FilenameOf(attachments[i]), file)
    /\ UNCHANGED <<pathVars, fsVars, fieldVars>>

\* another process rewrites, truncates, grows or removes the file
Writer ==
    /\ pc \notin {"start", "done"}   \* the size at the start is arbitrary already
    /\ writes < MaxWrites
    /\ \E n \in {NoFile, 0, BytesPerMB, BytesPerMB + 1} \ {file} : file' = n
    /\ writes' = writes + 1
    /\ UNCHANGED <<cwd, links, pathVars, fieldVars, localVars, netVars>>

\* ----------------------------------------------------- recipients, session
\* execute: the envelope recipients and the no-recipients return
ResolveRecipients ==
    /\ pc = "att_loop"
    /\ i > Len(attachments)
    /\ LET to_list == split_recipients(email_to)
           cc_list == split_recipients(email_cc)
           bcc_list == split_recipients(email_bcc)
       IN envelope_recipients' = dedupe_keep_order(to_list \o cc_list \o bcc_list)
    /\ IF envelope_recipients' = <<>>
       THEN /\ error' = Err("ValueError", "No recipients provided")
            /\ failures' = Append(failures, Failure("recipients", error'))
            /\ pc' = "done"
       ELSE /\ pc' = "connect"
            /\ UNCHANGED <<error, failures>>
    /\ UNCHANGED <<limit_bytes, logs, i, message_attachments, safe_path, size, exc,
                   conn, sent_to, steps>>
    /\ UNCHANGED <<pathVars, fsVars, fieldVars>>

\* a stage of the session raises e: the with block is left
StageFails(stage, e, next) ==
    /\ exc' = e
    /\ failures' = Append(failures, Failure(stage, Err(e.cls, e.msg)))
    /\ pc' = next

\* execute: SMTP(host, port, timeout) connects in its constructor
Connect ==
    /\ pc = "connect"
    /\ logs' = Append(logs, Log("will send", "", 0))
    /\ steps' = Append(steps, "connect")
    /\ \E ok \in BOOLEAN :
          IF ok THEN /\ conn' = "open"
                     /\ pc' = "starttls"
                     /\ UNCHANGED <<exc, failures>>
                ELSE /\ StageFails("connect", Raise("SMTPConnectError", "connect failed"), "except")
                     /\ UNCHANGED conn
    /\ UNCHANGED <<limit_bytes, error, i, message_attachments, safe_path, size,
                   envelope_recipients, sent_to>>
    /\ UNCHANGED <<pathVars, fsVars, fieldVars>>

\* execute: the optional TLS upgrade
StartTLS ==
    /\ pc = "starttls"
    /\ IF smtp_starttls
       THEN /\ logs' = Append(logs, Log("will starttls", "", 0))
            /\ steps' = Append(steps, "starttls")
            /\ \E ok \in BOOLEAN :
                  IF ok THEN pc' = "login" /\ UNCHANGED <<exc, failures>>
                        ELSE StageFails("starttls", Raise("SMTPException", "starttls failed"), "exit")
       ELSE /\ pc' = "login"
            /\ UNCHANGED <<logs, steps, exc, failures>>
    /\ UNCHANGED <<limit_bytes, error, i, message_attachments, safe_path, size,
                   envelope_recipients, conn, sent_to>>
    /\ UNCHANGED <<pathVars, fsVars, fieldVars>>

\* a login attempted as soon as a user is given
should_login_user_only(user, password) == Truthy(user)

\* execute: if self.smtp_user and self.smtp_password
should_login(user, password) == Truthy(user) /\ Truthy(password)

\* execute: the optional login
Login ==
    /\ pc = "login"
    /\ IF should_login(smtp_user, smtp_password)
       THEN /\ steps' = Append(steps, "login")
            /\ \E ok \in BOOLEAN :
                  IF ok THEN /\ logs' = logs \o <<Log("will login", "", 0),
                                                  Log("did login", "", 0)>>
                             /\ pc' = "send"
                             /\ UNCHANGED <<exc, failures>>
                        ELSE /\ logs' = Append(logs, Log("will login", "", 0))
                             /\ StageFails("login",
                                           Raise("SMTPAuthenticationError", "login failed"),
                                           "exit")
       ELSE /\ pc' = "send"
            /\ UNCHANGED <<logs, steps, exc, failures>>
    /\ UNCHANGED <<limit_bytes, error, i, message_attachments, safe_path, size,
                   envelope_recipients, conn, sent_to>>
    /\ UNCHANGED <<pathVars, fsVars, fieldVars>>

\* execute: send_message to the envelope recipients
Send ==
    /\ pc = "send"
    /\ steps' = Append(steps, "send")
    /\ \E ok \in BOOLEAN :
          IF ok THEN /\ sent_to' = Append(sent_to, envelope_recipients)
                     /\ logs' = Append(logs, Log("did send", "", Len(envelope_recipients)))
                     /\ pc' = "exit"
                     /\ UNCHANGED <<exc, failures>>
                ELSE /\ StageFails("send", Raise("SMTPException", "send failed"), "exit")
                     /\ UNCHANGED <<logs, sent_to>>
    /\ UNCHANGED <<limit_bytes, error, i, message_attachments, safe_path, size,
                   envelope_recipients, conn>>
    /\ UNCHANGED <<pathVars, fsVars, fieldVars>>

\* the session left without closing the connection when an exception is
\* pending
exit_conn_leaky(c, e) == IF e = NoExc THEN "closed" ELSE c

\* the connection state after the with block is left
exit_conn(c, e) == "closed"

\* execute: the end of the with block, normal or by exception
SessionExit ==
    /\ pc = "exit"
    /\ conn' = exit_conn(conn, exc)
    /\ pc' = IF exc = NoExc THEN "return" ELSE "except"
    /\ UNCHANGED <<limit_bytes, logs, error, i, message_attachments, safe_path, size,
                   envelope_recipients, exc, sent_to, steps, failures>>
    /\ UNCHANGED <<pathVars, fsVars, fieldVars>>

\* an except clause that logs the exception and leaves error unset
ExceptHandler_swallow ==
    /\ pc = "except"
    /\ logs' = Append(logs, Log("did error", exc.msg, 0))
    /\ pc' = "return"
    /\ UNCHANGED <<limit_bytes, error, i, message_attachments, safe_path, size,
                   envelope_recipients, exc, netVars>>
    /\ UNCHANGED <<pathVars, fsVars, fieldVars>>

\* execute: the except clause of the delivery stage
ExceptHandler ==
    /\ pc = "except"
    /\ logs' = Append(logs, Log("did error", exc.msg, 0))
    /\ error' = Err(exc.cls, exc.msg)
    /\ pc' = "return"
    /\ UNCHANGED <<limit_bytes, i, message_attachments, safe_path, size,
                   envelope_recipients, exc, netVars>>
    /\ UNCHANGED <<pathVars, fsVars, fieldVars>>

\* execute: the final return
Return ==
    /\ pc = "return"
    /\ pc' = "done"
    /\ UNCHANGED <<limit_bytes, logs, error, i, message_attachments, safe_path, size,
                   envelope_recipients, exc, netVars>>
    /\ UNCHANGED <<pathVars, fsVars, fieldVars>>

\* -------------------------------------------------------------- the inputs
Descriptor(fn, p, b) == [filename |-> fn, path |-> p, content_base64 |-> b]

\* attachment descriptors of an invocation: a file under the root, inline
\* content, no filename, a path outside the root, malformed base64, no source,
\* and both sources at once
ExecDescriptors ==
    { Descriptor(<<"f">>, FilePath, None),
      Descriptor(<<"g">>, None, <<"A", "A", "=", "=">>),
      Descriptor(None, None, <<"A", "A", "=", "=">>),
      Descriptor(<<"f">>, <<"/", "b">>, None),
      Descriptor(<<"g">>, None, <<"A">>),
      Descriptor(<<"f">>, None, None),
      Descriptor(<<"f">>, FilePath, <<"A", "A", "=", "=">>) }

\* To, Cc, Bcc of an invocation
ExecRecipients ==
    { <<<<>>, None, None>>,
      <<<<"a", ",", "b">>, <<"a">>, <<";", "c">>>> }

\* smtp_user, smtp_password
ExecCredentials ==
    { <<None, None>>, <<<<"u">>, None>>, <<<<"u">>, <<>>>>, <<<<"u">>, <<"p">>>> }

\* the limit setting: unset (100 MB) or 1 MB
ExecEnvLimits == {EnvUnset, EnvInt(1)}

PathIdle ==
    /\ path_value = <<>>
    /\ path_result = NoExc
    /\ path_pc = "idle"

LocalsAtStart ==
    /\ logs = <<>>
    /\ error = NoError
    /\ i = 0
    /\ message_attachments = <<>>
    /\ safe_path = <<>>
    /\ size = 0
    /\ envelope_recipients = <<>>
    /\ exc = NoExc
    /\ conn = "none"
    /\ sent_to = <<>>
    /\ steps = <<>>
    /\ failures = <<>>

\* one invocation of SendHTMLEmail.execute
Init ==
    /\ PathIdle
    /\ cwd = <<>>
    /\ links = {}
    /\ file \in {NoFile, BytesPerMB, BytesPerMB + 1}
    /\ writes = 0
    /\ attachments \in SeqsUpTo(ExecDescriptors, MaxAttachments)
    /\ \E r \in ExecRecipients : email_to = r[1] /\ email_cc = r[2] /\ email_bcc = r[3]
    /\ smtp_starttls \in BOOLEAN
    /\ \E c \in ExecCredentials : smtp_user = c[1] /\ smtp_password = c[2]
    /\ env_limit \in ExecEnvLimits
    /\ pc = "start"
    /\ limit_bytes = 0
    /\ LocalsAtStart

Next ==
    \/ Begin
    \/ ReadAttachmentEnter
    \/ ReadAttachmentStat
    \/ ReadAttachmentRead
    \/ Writer
    \/ ResolveRecipients
    \/ Connect
    \/ StartTLS
    \/ Login
    \/ Send
    \/ SessionExit
    \/ ExceptHandler
    \/ Return

Spec == Init /\ [][Next]_vars

\* --------------------------------------------- the path guard on its own
PathChars == {"/", "a", "b", ".", ":", "\\"}

\* canonical working directories: / and /a
Cwds == {<<>>, <<<<"a">>>>}

\* link tables: none; /a/b -> /b, out of the root; /b -> /a, into the root;
\* /: -> /a, into the root under a name holding a colon
LinkTables ==
    { {},
      { << <<<<"a">>, <<"b">>>>, <<<<"b">>>> >> },
      { << <<<<"b">>>>, <<<<"a">>>> >> },
      { << <<<<":">>>>, <<<<"a">>>> >> } }

FieldsIdle ==
    /\ attachments = <<>>
    /\ email_to = <<>>
    /\ email_cc = None
    /\ email_bcc = None
    /\ smtp_starttls = FALSE
    /\ smtp_user = None
    /\ smtp_password = None
    /\ env_limit = EnvUnset

InitPath ==
    /\ path_value \in SeqsUpTo(PathChars, MaxPathLen)
    /\ path_result = NoExc
    /\ path_pc = "call"
    /\ cwd \in Cwds
    /\ links \in LinkTables
    /\ file = NoFile
    /\ writes = 0
    /\ FieldsIdle
    /\ pc = "idle"
    /\ limit_bytes = 0
    /\ LocalsAtStart

\* _resolve_and_validate_attachment_path(path_value)
ValidatePath ==
    /\ path_pc = "call"
    /\ path_pc' = "returned"
    /\ path_result' = resolve_and_validate_attachment_path(path_value, cwd, links)
    /\ UNCHANGED <<path_value, fsVars, fieldVars, localVars, netVars>>

NextPath == ValidatePath

SpecPath == InitPath /\ [][NextPath]_vars

\* ------------------------------------- the attachment loader on its own
B64Chars == B64Digits \cup {"=", " "}

\* descriptors for one call of _read_attachment_bytes: every combination of
\* filename and path with no or some inline content, and every inline
\* content up to MaxB64Len characters
ReadDescriptors ==
    { Descriptor(fn, p, b) :
        fn \in {None, <<" ">>, <<"f">>},
        p \in {None, <<>>, FilePath, <<"/", "a">>, <<"/", "b">>, <<"f">>},
        b \in {None, <<>>, <<"A", "A", "=", "=">>} }
    \cup { Descriptor(<<"f">>, None, b) : b \in SeqsUpTo(B64Chars, MaxB64Len) }

\* _read_attachment_bytes(att, 0, limit_bytes) for a file that nobody changes
InitRead ==
    /\ PathIdle
    /\ cwd = <<>>
    /\ links = {}
    /\ \E d \in ReadDescriptors :
          /\ attachments = <<d>>
          /\ file \in IF Truthy(d.path) THEN {NoFile} \cup 0..MaxFileSize ELSE {NoFile}
    /\ writes = 0
    /\ email_to = <<>>
    /\ email_cc = None
    /\ email_bcc = None
    /\ smtp_starttls = FALSE
    /\ smtp_user = None
    /\ smtp_password = None
    /\ env_limit = EnvUnset
    /\ pc = "att_loop"
    /\ limit_bytes \in 1..MaxLimit
    /\ logs = <<>>
    /\ error = NoError
    /\ i = 1
    /\ message_attachments = <<>>
    /\ safe_path = <<>>
    /\ size = 0
    /\ envelope_recipients = <<>>
    /\ exc = NoExc
    /\ conn = "none"
    /\ sent_to = <<>>
    /\ steps = <<>>
    /\ failures = <<>>

NextRead == ReadAttachmentEnter \/ ReadAttachmentStat \/ ReadAttachmentRead

SpecRead == InitRead /\ [][NextRead]_vars

\* --------------------------------- the recipients of an invocation
RecipientChars == {",", ";", " ", "a", "b"}

CcValues == {None, <<>>, <<"a">>, <<"b">>, <<"b", ",", "a">>, <<" ", "a", " ">>}

BccValues == {None, <<>>, <<"b">>, <<"c">>, <<"a", ";", "c">>, <<";", " ", "a">>}

\* an invocation without attachments, for every To up to MaxToLen characters
InitRecipients ==
    /\ PathIdle
    /\ cwd = <<>>
    /\ links = {}
    /\ file = NoFile
    /\ writes = 0
    /\ attachments = <<>>
    /\ email_to \in SeqsUpTo(RecipientChars, MaxToLen)
    /\ email_cc \in CcValues
    /\ email_bcc \in BccValues
    /\ smtp_starttls = FALSE
    /\ smtp_user = None
    /\ smtp_password = None
    /\ env_limit = EnvUnset
    /\ pc = "start"
    /\ limit_bytes = 0
    /\ LocalsAtStart

NextRecipients ==
    \/ Begin
    \/ ResolveRecipients
    \/ Connect
    \/ StartTLS
    \/ Login
    \/ Send
    \/ SessionExit
    \/ ExceptHandler
    \/ Return

SpecRecipients == InitRecipients /\ [][NextRecipients]_vars

\* ================================================================= claims
Failed(stage) == \E k \in 1..Len(failures) : failures[k].stage = stage

Attempted(step) == \E k \in 1..Len(steps) : steps[k] = step

NetworkTags == {"will send", "will starttls", "will login", "did login", "did send"}

NoNetworkActivity ==
    /\ conn = "none"
    /\ steps = <<>>
    /\ sent_to = <<>>
    /\ \A k \in 1..Len(logs) : logs[k].tag \notin NetworkTags

\* C1: when loading an attachment fails, execute has returned with the error
\* set, no SMTP connection was opened, no STARTTLS, login or send step ran,
\* and the logs hold no "will send" (or later) entry.
C1_AttachmentFailureAbortsBeforeNetwork ==
    Failed("attachment") =>
        /\ pc = "done"
        /\ error # NoError
        /\ error = failures[1].err
        /\ NoNetworkActivity

\* an invocation whose second attachment failed after the first was attached
C1_Witness ==
    /\ pc = "done"
    /\ Failed("attachment")
    /\ Len(message_attachments) = 1
    /\ Len(attachments) = 2
    /\ envelope_recipients = <<>>
    /\ split_recipients(email_to) # <<>>

\* C2: whenever execute has left the session (handling its exception,
\* returning or returned), the connection it opened is closed; no terminal
\* state has an open connection.
C2_ConnectionClosedBeforeReturn ==
    pc \in {"except", "return", "done"} => conn # "open"

\* an invocation that returned after its login failed on an open connection
C2_Witness ==
    /\ pc = "done"
    /\ conn = "closed"
    /\ Failed("login")
    /\ error.message = "login failed"

StepRank(step) ==
    CASE step = "connect" -> 1
      [] step = "starttls" -> 2
      [] step = "login" -> 3
      [] step = "send" -> 4

\* C3: the session steps are attempted in the order connect, STARTTLS, login,
\* send, each at most once and connect first; a failed step is the last step
\* attempted; and in a finished invocation that connected, STARTTLS was
\* attempted iff smtp_starttls, login iff user and password are both
\* non-empty and STARTTLS did not fail, send iff neither STARTTLS nor login
\* failed.
C3_SessionStepOrder ==
    /\ \A j, k \in 1..Len(steps) : j < k => StepRank(steps[j]) < StepRank(steps[k])
    /\ steps # <<>> => steps[1] = "connect"
    /\ \A st \in {"connect", "starttls", "login", "send"} :
          Failed(st) => steps[Len(steps)] = st
    /\ Failed("connect") => conn = "none"
    /\ (pc = "done" /\ conn # "none") =>
          /\ Attempted("starttls") <=> smtp_starttls
          /\ Attempted("login") <=>
                (Truthy(smtp_user) /\ Truthy(smtp_password) /\ ~Failed("starttls"))
          /\ Attempted("send") <=> (~Failed("starttls") /\ ~Failed("login"))

\* a user without a password: no login, and the message was sent
C3_Witness ==
    /\ pc = "done"
    /\ Truthy(smtp_user)
    /\ ~Truthy(smtp_password)
    /\ steps = <<"connect", "send">>
    /\ sent_to # <<>>
    /\ error = NoError

ErrorTags == {"attachment error", "did error", "no recipients"}

\* C5: every error execute returns was appended to the logs where it was
\* detected: a finished invocation with an error has, as its last log entry,
\* an entry carrying the error's message.
C5_ReturnedErrorIsLogged ==
    (pc = "done" /\ error # NoError) =>
        /\ logs # <<>>
        /\ logs[Len(logs)].tag \in ErrorTags
        /\ logs[Len(logs)].msg = error.message

\* ---- the attachment loader (SpecRead)
ReadReturned == pc = "att_loop" /\ i = 2
ReadRaised == pc = "done"
ReadRejectedTooLarge == ReadRaised /\ error = Err(TooLarge.cls, TooLarge.msg)

TheAtt == attachments[1]

\* a path source naming the existing file under the allowed root
ValidPathSource ==
    /\ Truthy(TheAtt.path)
    /\ resolve_and_validate_attachment_path(TheAtt.path, cwd, links).ok
    /\ isfile(resolve_and_validate_attachment_path(TheAtt.path, cwd, links).value, file)

\* an inline source of well-formed padded base64
ValidInlineSource ==
    /\ ~Truthy(TheAtt.path)
    /\ Truthy(TheAtt.content_base64)
    /\ B64WellFormed(TheAtt.content_base64)

\* the bytes the source really holds
TrueSize == IF Truthy(TheAtt.path) THEN file ELSE Len(DecodeQuads(TheAtt.content_base64))

\* C6: for a limit L and an attachment that is valid apart from its size (a
\* filename, and either the existing file under the root or well-formed
\* padded base64), _read_attachment_bytes raises the too-large error iff the
\* true size exceeds L, and otherwise returns the payload of that size; a
\* size equal to L is accepted, and the estimate rejects nothing of true
\* size at most L.
C6_RejectedIffLargerThanLimit ==
    ((ReadReturned \/ ReadRaised) /\ FilenameOf(TheAtt) # <<>>
       /\ (ValidPathSource \/ ValidInlineSource)) =>
        /\ ReadRejectedTooLarge <=> TrueSize > limit_bytes
        /\ TrueSize <= limit_bytes =>
              /\ ReadReturned
              /\ message_attachments =
                    <<[filename |-> FilenameOf(TheAtt), size |-> TrueSize]>>

\* inline content of two quads whose decoded size is exactly the limit
C6_Witness ==
    /\ ReadReturned
    /\ ValidInlineSource
    /\ Len(TheAtt.content_base64) = 8
    /\ TrueSize = limit_bytes
    /\ estimated_base64_decoded_size(TheAtt.content_base64) = limit_bytes

\* C9: a descriptor that _read_attachment_bytes loads has exactly one of
\* path and content_base64, and one with neither is rejected with the
\* missing-source error.
C9_ExactlyOneSource ==
    /\ ReadReturned => (Truthy(TheAtt.path) /\ ~Truthy(TheAtt.content_base64))
                       \/ (~Truthy(TheAtt.path) /\ Truthy(TheAtt.content_base64))
    /\ ((ReadReturned \/ ReadRaised) /\ FilenameOf(TheAtt) # <<>>
          /\ ~Truthy(TheAtt.path) /\ ~Truthy(TheAtt.content_base64)) =>
           (ReadRaised /\ error.message = "must provide path or content_base64")

\* ---- the path guard (SpecPath)
AllowedRoot == realpath(ALLOWED_ATTACHMENTS_DIR, cwd, links)

\* the canonical path is the root or lies below it
UnderRoot(c) == c = AllowedRoot \/ StartsWith(c, AllowedRoot \o <<"/">>)

Canonical == realpath(path_value, cwd, links)

\* C7 as stated: for every candidate path (a non-empty string, as
\* _read_attachment_bytes passes only those), the guard accepts iff the
\* canonical path is the allowed root or a descendant of it.
C7_AcceptsIffUnderRoot ==
    (path_pc = "returned" /\ path_value # <<>>) =>
        (path_result.ok <=> UnderRoot(Canonical))

\* C7 amended: the guard accepts, returning the canonical path, iff the path
\* is absolute, has no colon among its first three characters, and its
\* canonical form is the allowed root or a descendant of it; a path leaving
\* the root by "..", a sibling sharing the root's string prefix, and every
\* relative path (the empty path and "\\..." paths included) are rejected.
C7_AcceptsIffAbsoluteNoColonUnderRoot ==
    path_pc = "returned" =>
        /\ path_result.ok <=>
              /\ isabs(path_value)
              /\ ~Contains(Take(path_value, 3), ":")
              /\ UnderRoot(Canonical)
        /\ path_result.ok => path_result.value = Canonical
        /\ ~isabs(path_value) => ~path_result.ok
        /\ path_value = <<"/", "a", "/", ".", ".">> => ~path_result.ok
        /\ (links = {} /\ StartsWith(path_value, <<"/", "a", "b">>)) => ~path_result.ok

\* a path accepted through a symbolic link: the value returned differs from
\* the path given
C7_Witness ==
    /\ path_pc = "returned"
    /\ path_result.ok
    /\ links # {}
    /\ StartsWith(path_value, <<"/", "b">>)
    /\ path_result.value # path_value

\* ---- the recipients (SpecRecipients)
IsSep(c) == c \in {",", ";"}

\* the maximal separator-free runs <<first, last>> of a field
Runs(v) ==
    IF ~Truthy(v) THEN {}
    ELSE { r \in (1..(Len(v) + 1)) \X (0..Len(v)) :
             /\ r[1] <= r[2] + 1
             /\ (r[1] = 1 \/ IsSep(v[r[1] - 1]))
             /\ (r[2] = Len(v) \/ IsSep(v[r[2] + 1]))
             /\ \A k \in r[1]..r[2] : ~IsSep(v[k]) }

Field(f) == IF f = 1 THEN email_to ELSE IF f = 2 THEN email_cc ELSE email_bcc

\* the places <<field, first>> where the trimmed token t stands
Places(t) ==
    UNION { { <<f, r[1]>> : r \in {q \in Runs(Field(f)) :
                                      Strip(SubSeq(Field(f), q[1], q[2])) = t} } :
            f \in 1..3 }

PlaceBefore(p, q) == p[1] < q[1] \/ (p[1] = q[1] /\ p[2] < q[2])

AllTokens ==
    UNION { { Strip(SubSeq(Field(f), r[1], r[2])) : r \in Runs(Field(f)) } : f \in 1..3 }
    \ {<<>>}

Resolved == pc \notin {"start", "att_loop"}

\* C8: the envelope recipients are exactly the trimmed non-empty tokens of
\* To, Cc, Bcc, each once, ordered by first occurrence (To before Cc before
\* Bcc); resolving the resolved list again changes nothing; send_message is
\* given exactly this list; and an empty list ends the invocation with the
\* no-recipients error and no SMTP connection.
C8_EnvelopeRecipients ==
    Resolved =>
        LET E == envelope_recipients
        IN /\ Elems(E) = AllTokens
           /\ \A j, k \in 1..Len(E) : j # k => E[j] # E[k]
           /\ \A j, k \in 1..Len(E) : j < k =>
                 \E p \in Places(E[j]) : \A q \in Places(E[k]) : PlaceBefore(p, q)
           /\ dedupe_keep_order(E) = E
           /\ dedupe_keep_order(split_recipients(JoinWith(E, <<",">>))) = E
           /\ \A k \in 1..Len(sent_to) : sent_to[k] = E
           /\ E = <<>> =>
                 /\ pc = "done"
                 /\ error = Err("ValueError", "No recipients provided")
                 /\ NoNetworkActivity

\* a message sent to two recipients after a duplicate was dropped
C8_Witness ==
    /\ pc = "done"
    /\ sent_to = <<envelope_recipients>>
    /\ Len(envelope_recipients) = 2
    /\ Len(split_recipients(email_to) \o split_recipients(email_cc)
           \o split_recipients(email_bcc)) > 2

\* ---- the file that changes under the reader (Spec)
\* C10: the file is read only after the size seen by the stat passed the
\* limit check; no payload longer than the limit is ever in the message; and
\* when the read finds more bytes than the limit, the invocation ends there
\* with the too-large error, nothing attached and no network stage.
C10_NoOversizedPayload ==
    /\ [](/\ \A k \in 1..Len(message_attachments) :
                message_attachments[k].size <= limit_bytes
          /\ pc = "att_read" => size <= limit_bytes)
    /\ [][(pc = "att_read" /\ pc' # "att_read" /\ file > limit_bytes) =>
             /\ pc' = "done"
             /\ error' = Err(TooLarge.cls, TooLarge.msg)
             /\ message_attachments' = message_attachments
             /\ conn' = "none" /\ steps' = <<>>]_vars

\* the stat saw a file of exactly the limit, the file grew, and the read
\* was rejected
C10_Witness ==
    /\ pc = "done"
    /\ Len(attachments) = 1
    /\ size = limit_bytes
    /\ file > limit_bytes
    /\ writes = 1
    /\ error = Err(TooLarge.cls, TooLarge.msg)
    /\ message_attachments = <<>>
    /\ NoNetworkActivity

====
